---- MODULE Spec2Model ----
(***************************************************************************)
(* A model of the payload normalizer of newrelic-go (package nrql):        *)
(* unmarshalPayload's trial parses of a response document into the         *)
(* PayloadBasic, PayloadAggregation and PayloadFacet shapes, and the       *)
(* Columns() / Rows() methods of the three variants.                       *)
(*                                                                         *)
(* A response document is a JSON value.  Every JSON value is a record      *)
(* [k, s, a]: k is its kind, s its text (a string, a number, a member's    *)
(* key) and a its children (an array's elements, an object's members in    *)
(* wire order, a member's value).                                          *)
(***************************************************************************)
EXTENDS Integers, Sequences, FiniteSets, TLC

\* ------------------------------------------------------------------ bounds

\* The longest "events" list of a generated document.
MaxEvents == 2
\* The longest list of cells ("results" of an aggregation or of a facet group).
MaxCells == 2
\* The number of Columns() / Rows() calls made on one payload instance.
MaxCalls == 3

\* ------------------------------------------------------- JSON documents

JNull == [k |-> "null", s |-> "", a |-> <<>>]
JNum(x) == [k |-> "num", s |-> x, a |-> <<>>]
JStr(x) == [k |-> "str", s |-> x, a |-> <<>>]
JArr(xs) == [k |-> "arr", s |-> "", a |-> xs]
JMem(key, v) == [k |-> "mem", s |-> key, a |-> <<v>>]
JObj(ms) == [k |-> "obj", s |-> "", a |-> ms]
\* Bytes that are not a JSON document at all: no byte, and a document cut
\* short.
JInvalid == [k |-> "invalid", s |-> "", a |-> <<>>]
JTruncated == [k |-> "invalid", s |-> "{", a |-> <<>>]

\* The keys of an object, and the value a decoder sees for a key: the last
\* member of that name, and null for a key the object does not carry (the
\* decoder leaves the zero value in both cases).
JKeys(j) == IF j.k = "obj" THEN {j.a[i].s : i \in 1..Len(j.a)} ELSE {}
JField(j, key) ==
    IF j.k = "obj" /\ key \in JKeys(j)
    THEN LET i == CHOOSE i \in 1..Len(j.a) :
                    /\ j.a[i].s = key
                    /\ \A i2 \in (i+1)..Len(j.a) : j.a[i2].s # key
         IN j.a[i].a[1]
    ELSE JNull
\* Element 0 of a JSON array decoded into a Go array of length 1: the elements
\* after the first are discarded, a missing one leaves the zero value.
JFirst(j) == IF j.k = "arr" /\ Len(j.a) >= 1 THEN j.a[1] ELSE JNull

\* All sequences over S of length at most n.
SeqUpTo(S, n) == UNION {[1..m -> S] : m \in 0..n}

\* ------------------------------------------------------------- Go values

\* interface{}: what json.Unmarshal stores for a JSON value.
GoNil == [t |-> "nil", s |-> ""]
decodeInterface(j) ==
    CASE j.k = "null" -> GoNil
      [] j.k = "num" -> [t |-> "float64", s |-> j.s]
      [] j.k = "str" -> [t |-> "string", s |-> j.s]
      [] j.k = "arr" -> [t |-> "slice", s |-> ""]
      [] OTHER -> [t |-> "map", s |-> ""]
GoString(x) == [t |-> "string", s |-> x]

\* map[string]interface{}: a function from the keys to the values; a later
\* member of the same key overwrites an earlier one.  A JSON null gives the
\* nil map, which reads like the empty one.
decodeMap(j) == [key \in JKeys(j) |-> decodeInterface(JField(j, key))]
MapOK(j) == j.k \in {"obj", "null"}

\* A slice: nil or not, and its elements.
NilSlice == [isnil |-> TRUE, elems |-> <<>>]
Slice(xs) == [isnil |-> FALSE, elems |-> xs]

\* []map[string]interface{}
MapsOK(j) == j.k = "null" \/ (j.k = "arr" /\ \A i \in 1..Len(j.a) : MapOK(j.a[i]))
decodeMaps(j) ==
    IF j.k = "arr" THEN Slice([i \in 1..Len(j.a) |-> decodeMap(j.a[i])]) ELSE NilSlice

\* string: a JSON null leaves "".
StringOK(j) == j.k \in {"str", "null"}
decodeString(j) == IF j.k = "str" THEN j.s ELSE ""

\* []string
StringsOK(j) == j.k = "null" \/ (j.k = "arr" /\ \A i \in 1..Len(j.a) : StringOK(j.a[i]))
decodeStrings(j) ==
    IF j.k = "arr" THEN Slice([i \in 1..Len(j.a) |-> decodeString(j.a[i])]) ELSE NilSlice

\* A struct: a JSON object or null; anything else is an UnmarshalTypeError.
StructOK(j) == j.k \in {"obj", "null"}

\* --------------------------------------------------------- PayloadBasic

BasicOK(data) ==
    /\ StructOK(data)
    /\ LET results == JField(data, "results")
           metadata == JField(data, "metadata")
           contents == JField(metadata, "contents")
       IN /\ results.k \in {"arr", "null"}
          /\ StructOK(JFirst(results))
          /\ MapsOK(JField(JFirst(results), "events"))
          /\ StructOK(metadata)
          /\ contents.k \in {"arr", "null"}
          /\ StructOK(JFirst(contents))
          /\ StringsOK(JField(JFirst(contents), "columns"))

decodeBasic(data) ==
    [cols |-> NilSlice,
     Events |-> decodeMaps(JField(JFirst(JField(data, "results")), "events")),
     Columns |-> decodeStrings(
         JField(JFirst(JField(JField(data, "metadata"), "contents")), "columns"))]

\* --------------------------------------------------- PayloadAggregation

\* One entry of metadata contents: the function and the alias are kept; the
\* attribute and the nested contents are decoded and never read.
ContentOK(j) ==
    /\ StructOK(j)
    /\ StringOK(JField(j, "function"))
    /\ StringOK(JField(j, "alias"))
    /\ StringOK(JField(j, "attribute"))
    /\ StructOK(JField(j, "contents"))
    /\ StringOK(JField(JField(j, "contents"), "function"))
    /\ StringOK(JField(JField(j, "contents"), "attribute"))
ContentsOK(j) ==
    j.k = "null" \/ (j.k = "arr" /\ \A i \in 1..Len(j.a) : ContentOK(j.a[i]))
decodeContents(j) ==
    IF j.k = "arr"
    THEN [i \in 1..Len(j.a) |->
            [Function |-> decodeString(JField(j.a[i], "function")),
             Alias |-> decodeString(JField(j.a[i], "alias"))]]
    ELSE <<>>

AggregationOK(data) ==
    /\ StructOK(data)
    /\ MapsOK(JField(data, "results"))
    /\ StructOK(JField(data, "metadata"))
    /\ ContentsOK(JField(JField(data, "metadata"), "contents"))

decodeAggregation(data) ==
    [Results |-> decodeMaps(JField(data, "results")),
     Contents |-> decodeContents(JField(JField(data, "metadata"), "contents"))]

\* --------------------------------------------------------- PayloadFacet

FacetGroupOK(j) ==
    /\ StructOK(j)
    /\ StringOK(JField(j, "name"))
    /\ MapsOK(JField(j, "results"))
FacetGroupsOK(j) ==
    j.k = "null" \/ (j.k = "arr" /\ \A i \in 1..Len(j.a) : FacetGroupOK(j.a[i]))
decodeFacetGroups(j) ==
    IF j.k = "arr"
    THEN Slice([i \in 1..Len(j.a) |->
            [Name |-> decodeString(JField(j.a[i], "name")),
             Results |-> decodeMaps(JField(j.a[i], "results")).elems]])
    ELSE NilSlice

FacetOK(data) ==
    /\ StructOK(data)
    /\ FacetGroupsOK(JField(data, "facets"))
    /\ StructOK(JField(data, "totalResult"))
    /\ MapsOK(JField(JField(data, "totalResult"), "results"))
    /\ StructOK(JField(data, "unknownGroup"))
    /\ MapsOK(JField(JField(data, "unknownGroup"), "results"))
    /\ LET metadata == JField(data, "metadata")
       IN /\ StructOK(metadata)
          /\ StringOK(JField(metadata, "facet"))
          /\ StructOK(JField(metadata, "contents"))
          /\ ContentsOK(JField(JField(metadata, "contents"), "contents"))

decodeFacet(data) ==
    [Facets |-> decodeFacetGroups(JField(data, "facets")),
     TotalResult |-> decodeMaps(JField(JField(data, "totalResult"), "results")).elems,
     UnknownGroup |-> decodeMaps(JField(JField(data, "unknownGroup"), "results")).elems,
     Facet |-> decodeString(JField(JField(data, "metadata"), "facet")),
     Contents |-> decodeContents(
         JField(JField(JField(data, "metadata"), "contents"), "contents"))]

\* ------------------------------------------------------- json.Unmarshal

\* The error of json.Unmarshal(data, &v) for each of the three targets: ""
\* for none, a syntax error for bytes that are not JSON, a type error for a
\* JSON value that does not fit the target.
UnmarshalErr(data, fits) ==
    IF data.k = "invalid" THEN "syntax error"
    ELSE IF fits THEN "" ELSE "type error"

\* json.Indent(&buf, data, "", "    "): fails on bytes that are not JSON, and
\* otherwise gives the same document laid out over indented lines.
IndentOK(data) == data.k # "invalid"
Indent(data) == [k |-> "indented", s |-> "    ", a |-> <<data>>]

\* ----------------------------------------------------- unmarshalPayload

ZeroBasic == [cols |-> NilSlice, Events |-> NilSlice, Columns |-> NilSlice]
ZeroAggregation == [Results |-> NilSlice, Contents |-> <<>>]
ZeroFacet ==
    [Facets |-> NilSlice, TotalResult |-> <<>>, UnknownGroup |-> <<>>,
     Facet |-> "", Contents |-> <<>>]

\* Mutant of basicErrOf: an empty "events" list counts as a missing one.
basicErrOf_NonEmptyEvents(data) ==
    LET err == UnmarshalErr(data, BasicOK(data))
    IN IF err # "" THEN err
       ELSE IF Len(decodeBasic(data).Events.elems) > 0 THEN ""
       ELSE "missing 'results[0].events' field"

\* Mutant of basicErrOf: the column list is required too.
basicErrOf_RequiresColumns(data) ==
    LET err == UnmarshalErr(data, BasicOK(data))
    IN IF err # "" THEN err
       ELSE IF decodeBasic(data).Events.isnil THEN "missing 'results[0].events' field"
       ELSE IF decodeBasic(data).Columns.isnil
            THEN "missing 'metadata.contents[0].columns' field"
       ELSE ""

\* The three trial parses: the error each one ends with ("" when it matches).
basicErrOf(data) ==
    LET err == UnmarshalErr(data, BasicOK(data))
    IN IF err # "" THEN err
       ELSE IF ~decodeBasic(data).Events.isnil THEN ""
       ELSE "missing 'results[0].events' field"

aggregationErrOf(data) ==
    LET err == UnmarshalErr(data, AggregationOK(data))
    IN IF err # "" THEN err
       ELSE IF ~decodeAggregation(data).Results.isnil THEN ""
       ELSE "missing 'results' field"

facetErrOf(data) == UnmarshalErr(data, FacetOK(data))

NoErrors == [basic |-> "", aggregation |-> "", facet |-> ""]
Returned(kind) ==
    [outcome |-> "payload", kind |-> kind, errors |-> NoErrors, data |-> JNull]

\* Mutant of unmarshalPayload: the Aggregation shape is tried before the
\* Event shape.
unmarshalPayload_AggregationFirst(data) ==
    IF aggregationErrOf(data) = "" THEN Returned("Aggregation")
    ELSE IF basicErrOf(data) = "" THEN Returned("Event")
    ELSE IF facetErrOf(data) = "" THEN Returned("Facet")
    ELSE IF ~IndentOK(data)
         THEN [outcome |-> "panic", kind |-> "none", errors |-> NoErrors,
               data |-> JNull]
    ELSE [outcome |-> "error", kind |-> "none",
          errors |-> [basic |-> basicErrOf(data),
                      aggregation |-> aggregationErrOf(data),
                      facet |-> facetErrOf(data)],
          data |-> Indent(data)]

\* What unmarshalPayload(data) ends with: a payload of one of the three
\* kinds, an error carrying the three causes and the indented document, or a
\* panic.
unmarshalPayload(data) ==
    IF basicErrOf(data) = "" THEN Returned("Event")
    ELSE IF aggregationErrOf(data) = "" THEN Returned("Aggregation")
    ELSE IF facetErrOf(data) = "" THEN Returned("Facet")
    ELSE IF ~IndentOK(data)
         THEN [outcome |-> "panic", kind |-> "none", errors |-> NoErrors,
               data |-> JNull]
    ELSE [outcome |-> "error", kind |-> "none",
          errors |-> [basic |-> basicErrOf(data),
                      aggregation |-> aggregationErrOf(data),
                      facet |-> facetErrOf(data)],
          data |-> Indent(data)]

\* ------------------------------------------------- Columns() and Rows()

\* The orders in which a range over a map can give its keys.
KeyOrders(S) ==
    {f \in [1..Cardinality(S) -> S] : \A i, j \in 1..Cardinality(S) : i # j => f[i] # f[j]}

\* Mutant of PayloadBasic_Columns: the column list of the metadata is not
\* looked at, the columns always come from the first event.
PayloadBasic_Columns_FromFirstEvent(p, order) ==
    IF ~p.cols.isnil
    THEN [p |-> p, out |-> p.cols, panicked |-> FALSE, ranged |-> FALSE]
    ELSE IF Len(p.Events.elems) = 0
    THEN [p |-> p, out |-> NilSlice, panicked |-> TRUE, ranged |-> FALSE]
    ELSE [p |-> [p EXCEPT !.cols = Slice(order)], out |-> Slice(order),
          panicked |-> FALSE, ranged |-> TRUE]

\* (*PayloadBasic).Columns on the instance p, where order is the order in
\* which the range over the first event gives its keys when it is run.  It
\* ends with the instance as the call leaves it, the returned slice, whether
\* the call panicked (Events[0] of an empty list) and whether it ranged over
\* the first event.
PayloadBasic_Columns(p, order) ==
    IF ~p.cols.isnil
    THEN [p |-> p, out |-> p.cols, panicked |-> FALSE, ranged |-> FALSE]
    ELSE IF ~p.Columns.isnil
    THEN [p |-> [p EXCEPT !.cols = p.Columns], out |-> p.Columns,
          panicked |-> FALSE, ranged |-> FALSE]
    ELSE IF Len(p.Events.elems) < 0
    THEN [p |-> p, out |-> NilSlice, panicked |-> FALSE, ranged |-> FALSE]
    ELSE IF Len(p.Events.elems) = 0
    THEN [p |-> p, out |-> NilSlice, panicked |-> TRUE, ranged |-> FALSE]
    ELSE [p |-> [p EXCEPT !.cols = Slice(order)], out |-> Slice(order),
          panicked |-> FALSE, ranged |-> TRUE]

\* Mutant of RangeOrders: the range runs over the keys of all the events.
RangeOrders_AllEvents(p) ==
    KeyOrders(UNION {DOMAIN p.Events.elems[i] : i \in 1..Len(p.Events.elems)})

\* The orders the range of a Columns() call on p can take.
RangeOrders(p) ==
    IF Len(p.Events.elems) = 0 THEN {<<>>} ELSE KeyOrders(DOMAIN p.Events.elems[1])

\* event[column]: nil for a key the event does not have.
MapIndex(m, key) == IF key \in DOMAIN m THEN m[key] ELSE GoNil

\* One row of PayloadBasic.Rows: a cell per column.
BasicRow(event, columns) == [j \in 1..Len(columns) |-> MapIndex(event, columns[j])]

\* PayloadBasic.Rows.  The receiver is a copy of the instance: the Columns()
\* call inside it fills the cache of the copy.
PayloadBasic_Rows(p, order) ==
    LET c == PayloadBasic_Columns(p, order)
    IN [out |-> IF c.panicked THEN <<>>
                ELSE [i \in 1..Len(p.Events.elems) |->
                        BasicRow(p.Events.elems[i], c.out.elems)],
        panicked |-> c.panicked, ranged |-> c.ranged]

\* Mutant of ColumnName: the alias is never looked at.
ColumnName_FunctionOnly(content) == content.Function

\* The column name of one metadata content entry.
ColumnName(content) ==
    IF content.Function = "alias" THEN content.Alias ELSE content.Function

PayloadAggregation_Columns(p) ==
    [i \in 1..Len(p.Contents) |-> ColumnName(p.Contents[i])]

\* Mutant of parseCell: an empty (or nil) map gives nil and no fatal exit.
parseCell_NilForEmpty(cell) ==
    IF Cardinality(DOMAIN cell) > 1
    THEN [fatal |-> TRUE, v |-> GoNil]
    ELSE IF Cardinality(DOMAIN cell) = 0
    THEN [fatal |-> FALSE, v |-> GoNil]
    ELSE [fatal |-> FALSE, v |-> cell[CHOOSE key \in DOMAIN cell : TRUE]]

\* parseCell: the value of a single-entry map; log.Fatal for any other map.
parseCell(cell) ==
    IF Cardinality(DOMAIN cell) # 1
    THEN [fatal |-> TRUE, v |-> GoNil]
    ELSE [fatal |-> FALSE, v |-> cell[CHOOSE key \in DOMAIN cell : TRUE]]

parseRow(row) ==
    [fatal |-> \E i \in 1..Len(row) : parseCell(row[i]).fatal,
     out |-> [i \in 1..Len(row) |-> parseCell(row[i]).v]]

\* Mutant of PayloadAggregation_Rows: no row for an empty "results".
PayloadAggregation_Rows_NoRowWhenEmpty(p) ==
    LET r == parseRow(p.Results.elems)
    IN [fatal |-> r.fatal,
        out |-> IF r.fatal \/ Len(p.Results.elems) = 0 THEN <<>> ELSE <<r.out>>]

\* PayloadAggregation.Rows: the one row of the parsed cells; no row is
\* returned when parseCell ended the process.
PayloadAggregation_Rows(p) ==
    LET r == parseRow(p.Results.elems)
    IN [fatal |-> r.fatal, out |-> IF r.fatal THEN <<>> ELSE <<r.out>>]

\* Mutant of PayloadFacet_Columns: the facet name is left out.
PayloadFacet_Columns_NoFacetName(p) ==
    [i \in 1..Len(p.Contents) |-> ColumnName(p.Contents[i])]

PayloadFacet_Columns(p) ==
    <<p.Facet>> \o [i \in 1..Len(p.Contents) |-> ColumnName(p.Contents[i])]

\* One row of PayloadFacet.Rows: the group's name, then its cells.
FacetRow(group) == <<GoString(group.Name)>> \o parseRow(group.Results).out

\* Mutant of PayloadFacet_Rows: the totalResult section gives a last row.
PayloadFacet_Rows_WithTotalResult(p) ==
    LET fatal == \E i \in 1..Len(p.Facets.elems) : parseRow(p.Facets.elems[i].Results).fatal
    IN [fatal |-> fatal,
        out |-> IF fatal THEN <<>>
                ELSE [i \in 1..Len(p.Facets.elems) |-> FacetRow(p.Facets.elems[i])]
                     \o << <<GoString("total")>> \o parseRow(p.TotalResult).out >>]

\* PayloadFacet.Rows: a row per facet group; no row is returned when
\* parseCell ended the process.
PayloadFacet_Rows(p) ==
    LET fatal == \E i \in 1..Len(p.Facets.elems) : parseRow(p.Facets.elems[i].Results).fatal
    IN [fatal |-> fatal,
        out |-> IF fatal THEN <<>>
                ELSE [i \in 1..Len(p.Facets.elems) |-> FacetRow(p.Facets.elems[i])]]

\* ------------------------------------------------- the documents tried

Obj1(k1, v1) == JObj(<<JMem(k1, JNum(v1))>>)
Obj2(k1, v1, k2, v2) == JObj(<<JMem(k1, JNum(v1)), JMem(k2, JNum(v2))>>)
\* An object of the members given whose value is not null.
ObjOf(ms) == JObj(SelectSeq(ms, LAMBDA m : m.a[1] # JNull))

\* Event records: no key, one key, two keys, keys the first event may lack,
\* a key given twice, and a null in place of the record.
EventObjs ==
    {JObj(<<>>), Obj1("a", "1"), Obj2("a", "1", "b", "2"), Obj2("b", "1", "c", "2"),
     Obj2("a", "1", "a", "2"), JNull}
\* The "events" field: absent, of the wrong type, or a list of event records.
EventsChoices ==
    {JNull, JNum("5")} \cup {JArr(es) : es \in SeqUpTo(EventObjs, MaxEvents)}
Entry(events) == ObjOf(<<JMem("events", events)>>)

\* Cells: a single-entry map, an empty map, a two-entry map and a null.
Cells ==
    {Obj1("count", "1"), Obj1("average", "2"), JObj(<<>>),
     Obj2("min", "1", "max", "2"), JNull}
CellLists == SeqUpTo(Cells, MaxCells)

\* The top-level "results" field.
EventResults ==
    {JArr(<<Entry(e)>>) : e \in EventsChoices}
    \cup {JArr(<<Entry(JNull), Entry(JArr(<<>>))>>),
          JArr(<<JObj(<<>>), Entry(JArr(<<Obj1("a", "1")>>))>>),
          JArr(<<Entry(JArr(<<Obj1("a", "1")>>)), JNum("5")>>),
          JArr(<<Entry(JArr(<<Obj1("a", "1")>>)), Entry(JArr(<<Obj1("b", "2")>>))>>)}
AggregationResults == {JArr(cs) : cs \in CellLists}
OtherResults == {JNull, JNum("5"), JArr(<<JNum("1")>>), JObj(<<>>)}
FewResults ==
    {JNull, JNum("5"), JArr(<<Entry(JArr(<<>>))>>),
     JArr(<<Entry(JArr(<<Obj2("a", "1", "b", "2")>>))>>),
     JArr(<<Obj1("count", "1")>>), JArr(<<Entry(JNull)>>)}

\* The "metadata" field, in the layout of each of the three shapes.
ColumnLists ==
    {JArr(<<>>), JArr(<<JStr("a")>>), JArr(<<JStr("a"), JStr("b")>>),
     JArr(<<JStr("b"), JStr("a")>>), JArr(<<JStr("c"), JStr("a")>>), JNum("5")}
Function(f) == JObj(<<JMem("function", JStr(f))>>)
Alias(n) == JObj(<<JMem("function", JStr("alias")), JMem("alias", JStr(n))>>)
\* An entry that carries an alias while its function is not the marker "alias".
NotAlias(f, n) == JObj(<<JMem("function", JStr(f)), JMem("alias", JStr(n))>>)
ContentLists ==
    {<<>>, <<Function("count")>>, <<Alias("n")>>,
     <<Function("average"), Function("count")>>,
     <<Function("average"), Alias("n")>>,
     <<NotAlias("Alias", "m")>>}
BasicMetadata(columns) ==
    JObj(<<JMem("contents", JArr(<<ObjOf(<<JMem("columns", columns)>>)>>))>>)
AggregationMetadata(cl) == JObj(<<JMem("contents", JArr(cl))>>)
FacetMetadata(cl) ==
    JObj(<<JMem("facet", JStr("f")),
           JMem("contents", JObj(<<JMem("contents", JArr(cl))>>))>>)
MetadataChoices ==
    {JNull, JNum("5")}
    \cup {BasicMetadata(c) : c \in ColumnLists}
    \cup {AggregationMetadata(cl) : cl \in ContentLists}
    \cup {FacetMetadata(cl) : cl \in ContentLists}
FewMetadata ==
    {JNull, BasicMetadata(JArr(<<JStr("a")>>)),
     AggregationMetadata(<<Function("count")>>), FacetMetadata(<<>>),
     FacetMetadata(<<Function("count")>>),
     FacetMetadata(<<Function("average"), Alias("n")>>)}

\* The "facets" field.
Group(name, cs) == JObj(<<JMem("name", name), JMem("results", JArr(cs))>>)
FacetsChoices ==
    {JNull, JNum("5"), JArr(<<>>), JArr(<<JNull>>)}
    \cup {JArr(<<Group(JStr("x"), cs)>>) : cs \in CellLists}
    \cup {JArr(<<Group(JStr("x"), <<Obj1("count", "1")>>), Group(JStr("y"), cs)>>) :
            cs \in {<<>>, <<Obj1("count", "2")>>, <<JObj(<<>>)>>}}
    \cup {JArr(<<Group(JNum("7"), <<Obj1("count", "1")>>)>>)}
\* The "totalResult" and "unknownGroup" sections of a facet response.
Section(cs) == JObj(<<JMem("results", JArr(cs))>>)

Document(results, facets, metadata) ==
    ObjOf(<<JMem("results", results), JMem("facets", facets),
            JMem("metadata", metadata)>>)

\* Every input tried: bytes that are no JSON, JSON values that are no object,
\* and objects of every mix of the fields above.
Documents ==
    {JInvalid, JTruncated, JArr(<<>>), JNum("5")}
    \cup {Document(r, JNull, m) :
            r \in EventResults \cup AggregationResults \cup OtherResults,
            m \in MetadataChoices}
    \cup {Document(r, f, m) : r \in FewResults, f \in FacetsChoices, m \in FewMetadata}
    \cup {ObjOf(<<JMem("facets", JArr(<<Group(JStr("x"), <<Obj1("count", "1")>>)>>)),
                  JMem("totalResult", Section(<<Obj1("count", "3")>>)),
                  JMem("unknownGroup", Section(<<Obj1("count", "4")>>)),
                  JMem("metadata", FacetMetadata(<<Function("count")>>))>>),
          ObjOf(<<JMem("facets", JArr(<<>>)), JMem("totalResult", JNum("5"))>>)}

\* ---------------------------------------------------------------- state

VARIABLES
    data,          \* the bytes given to unmarshalPayload
    pc,            \* start, returned, failed, panicked, exited
    ret,           \* what unmarshalPayload ended with
    basic,         \* the PayloadBasic instance (with its column cache)
    aggregation,   \* the PayloadAggregation instance
    facet,         \* the PayloadFacet instance
    calls,         \* the Columns() and Rows() calls made so far, with results
    ranges,        \* how often a call ranged over the first event's keys
    spare,         \* the column list's backing array past the list's length
    statics,       \* the StaticColumns of each StaticColumnsPayload in use
    threads,       \* the goroutines inside Columns(): position and locals
    http,          \* what the transport answers to the request of execRaw
    csv,           \* FormatCSV: the payload given, the buffer, the records written
    query          \* a query value and what String() gave for it

vars ==
    <<data, pc, ret, basic, aggregation, facet, calls, ranges,
      spare, statics, threads, http, csv, query>>

NoResult ==
    [outcome |-> "none", kind |-> "none", errors |-> NoErrors, data |-> JNull]

Init ==
    /\ data \in Documents
    /\ pc = "start"
    /\ ret = NoResult
    /\ basic = ZeroBasic
    /\ aggregation = ZeroAggregation
    /\ facet = ZeroFacet
    /\ calls = <<>>
    /\ ranges = 0
    /\ spare = <<>> /\ statics = <<>> /\ threads = <<>>
    /\ http = <<>> /\ csv = <<>> /\ query = <<>>

\* unmarshalPayload(data): the three instances are decoded in turn, each only
\* when the one before it did not match.
UnmarshalPayload ==
    /\ pc = "start"
    /\ ret' = unmarshalPayload(data)
    /\ pc' = CASE ret'.outcome = "payload" -> "returned"
               [] ret'.outcome = "error" -> "failed"
               [] OTHER -> "panicked"
    /\ basic' = IF UnmarshalErr(data, BasicOK(data)) = ""
                THEN decodeBasic(data) ELSE ZeroBasic
    /\ aggregation' = IF ret'.kind # "Event" /\ UnmarshalErr(data, AggregationOK(data)) = ""
                      THEN decodeAggregation(data) ELSE ZeroAggregation
    /\ facet' = IF ret'.kind = "Facet" THEN decodeFacet(data) ELSE ZeroFacet
    /\ UNCHANGED <<data, calls, ranges>>
    /\ UNCHANGED <<spare, statics, threads, http, csv, query>>

Call(op, status, cols, rows) ==
    [op |-> op, status |-> status, cols |-> cols, rows |-> rows]

CanCall(kind) ==
    /\ pc = "returned"
    /\ ret.kind = kind
    /\ Len(calls) < MaxCalls

\* Columns() on the *PayloadBasic that unmarshalPayload returned.
ColumnsBasic ==
    /\ CanCall("Event")
    /\ \E order \in RangeOrders(basic) :
        LET r == PayloadBasic_Columns(basic, order)
        IN /\ basic' = r.p
           /\ calls' = Append(calls,
                 Call("Columns", IF r.panicked THEN "panic" ELSE "ok", r.out.elems, <<>>))
           /\ pc' = IF r.panicked THEN "panicked" ELSE pc
           /\ ranges' = IF r.ranged THEN ranges + 1 ELSE ranges
    /\ UNCHANGED <<data, ret, aggregation, facet>>
    /\ UNCHANGED <<spare, statics, threads, http, csv, query>>

\* Rows() on the *PayloadBasic that unmarshalPayload returned: the method has
\* a value receiver, so it runs on a copy and leaves the instance as it was.
RowsBasic ==
    /\ CanCall("Event")
    /\ \E order \in RangeOrders(basic) :
        LET r == PayloadBasic_Rows(basic, order)
        IN /\ calls' = Append(calls,
                 Call("Rows", IF r.panicked THEN "panic" ELSE "ok", <<>>, r.out))
           /\ pc' = IF r.panicked THEN "panicked" ELSE pc
           /\ ranges' = IF r.ranged THEN ranges + 1 ELSE ranges
    /\ UNCHANGED <<data, ret, basic, aggregation, facet>>
    /\ UNCHANGED <<spare, statics, threads, http, csv, query>>

ColumnsAggregation ==
    /\ CanCall("Aggregation")
    /\ calls' = Append(calls,
          Call("Columns", "ok", PayloadAggregation_Columns(aggregation), <<>>))
    /\ UNCHANGED <<data, pc, ret, basic, aggregation, facet, ranges>>
    /\ UNCHANGED <<spare, statics, threads, http, csv, query>>

RowsAggregation ==
    /\ CanCall("Aggregation")
    /\ LET r == PayloadAggregation_Rows(aggregation)
       IN /\ calls' = Append(calls,
                Call("Rows", IF r.fatal THEN "fatal" ELSE "ok", <<>>, r.out))
          /\ pc' = IF r.fatal THEN "exited" ELSE pc
    /\ UNCHANGED <<data, ret, basic, aggregation, facet, ranges>>
    /\ UNCHANGED <<spare, statics, threads, http, csv, query>>

ColumnsFacet ==
    /\ CanCall("Facet")
    /\ calls' = Append(calls, Call("Columns", "ok", PayloadFacet_Columns(facet), <<>>))
    /\ UNCHANGED <<data, pc, ret, basic, aggregation, facet, ranges>>
    /\ UNCHANGED <<spare, statics, threads, http, csv, query>>

RowsFacet ==
    /\ CanCall("Facet")
    /\ LET r == PayloadFacet_Rows(facet)
       IN /\ calls' = Append(calls,
                Call("Rows", IF r.fatal THEN "fatal" ELSE "ok", <<>>, r.out))
          /\ pc' = IF r.fatal THEN "exited" ELSE pc
    /\ UNCHANGED <<data, ret, basic, aggregation, facet, ranges>>
    /\ UNCHANGED <<spare, statics, threads, http, csv, query>>

Next ==
    \/ UnmarshalPayload
    \/ ColumnsBasic
    \/ RowsBasic
    \/ ColumnsAggregation
    \/ RowsAggregation
    \/ ColumnsFacet
    \/ RowsFacet

Spec == Init /\ [][Next]_vars

\* ------------------------------------------- the vocabulary of the claims

\* The fields of the document as they stand on the wire.
Results(d) == JField(d, "results")
Facets(d) == JField(d, "facets")
EventsAt(d, i) == JField(Results(d).a[i], "events")
FirstEvents(d) == JField(JFirst(Results(d)), "events")
ColumnList(d) == JField(JFirst(JField(JField(d, "metadata"), "contents")), "columns")

\* The condition under which each trial parse matches.
EventCondition(d) == d.k # "invalid" /\ BasicOK(d) /\ FirstEvents(d) # JNull
AggregationCondition(d) == d.k # "invalid" /\ AggregationOK(d) /\ Results(d) # JNull
FacetCondition(d) == d.k # "invalid" /\ FacetOK(d)

Done == pc # "start"
ColumnsCalls == {i \in 1..Len(calls) : calls[i].op = "Columns" /\ calls[i].status = "ok"}
RowsCalls == {i \in 1..Len(calls) : calls[i].op = "Rows" /\ calls[i].status = "ok"}

\* ------------------------------------------------------------------- C1

\* C1 as stated: whatever payload unmarshalPayload returned, every row that
\* Rows() returns is as long as the list that Columns() returns.
C1_EveryRowAsLongAsColumns ==
    \A i \in RowsCalls : \A j \in ColumnsCalls :
        \A r \in 1..Len(calls[i].rows) : Len(calls[i].rows[r]) = Len(calls[j].cols)

\* C1, amended: every row of an Event payload is as long as Columns(); the
\* row of an Aggregation payload is when "results" has as many entries as the
\* metadata contents; row r of a Facet payload is when group r has as many
\* results as the metadata contents.
C1_RowAsLongAsColumnsWhenMetadataAgrees ==
    \A i \in RowsCalls : \A j \in ColumnsCalls :
        \A r \in 1..Len(calls[i].rows) :
            \/ ret.kind = "Aggregation"
               /\ Len(Results(data).a) # Len(JField(JField(data, "metadata"), "contents").a)
            \/ ret.kind = "Facet"
               /\ Len(JField(Facets(data).a[r], "results").a)
                    # Len(JField(JField(JField(data, "metadata"), "contents"), "contents").a)
            \/ Len(calls[i].rows[r]) = Len(calls[j].cols)

C1_Witness ==
    /\ ret.kind = "Facet"
    /\ \E i \in RowsCalls : \E j \in ColumnsCalls :
        /\ Len(calls[i].rows) = 2
        /\ Len(calls[i].rows[2]) = 2
        /\ Len(calls[j].cols) = 2

\* ------------------------------------------------------------------- C2

\* C2 as stated: a document that meets the Event condition is returned as
\* Event; one that fails it and has a non-null top-level "results" is returned
\* as Aggregation.
C2_ResultsFieldMakesAggregation ==
    Done =>
        /\ EventCondition(data) => ret.kind = "Event"
        /\ ~EventCondition(data) /\ Results(data) # JNull => ret.kind = "Aggregation"

\* C2, amended: the first of Event, Aggregation, Facet whose trial parse
\* matches is returned; a document that fails the Event condition, decodes
\* under the Aggregation shape and has a non-null "results" is returned as
\* Aggregation, with or without "facets".
C2_FirstMatchingShapeIsReturned ==
    Done =>
        /\ EventCondition(data) => ret.kind = "Event"
        /\ ~EventCondition(data) /\ AggregationCondition(data)
            => ret.kind = "Aggregation"
        /\ ~EventCondition(data) /\ ~AggregationCondition(data) /\ FacetCondition(data)
            => ret.kind = "Facet"

C2_Witness ==
    /\ pc = "returned"
    /\ ret.kind = "Aggregation"
    /\ Facets(data).k = "arr"
    /\ FacetCondition(data)

\* ------------------------------------------------------------------- C3

\* C3: a JSON object with neither "results" nor "facets" is rejected with an
\* error that carries the three causes, and a Facet payload is returned only
\* for a document whose "facets" is not null.
C3_NoResultsNoFacetsIsRejected ==
    Done =>
        /\ data.k = "obj" /\ Results(data) = JNull /\ Facets(data) = JNull
            => /\ ret.outcome = "error"
               /\ ret.errors.basic # ""
               /\ ret.errors.aggregation # ""
               /\ ret.errors.facet # ""
        /\ ret.kind = "Facet" => Facets(data) # JNull

\* ------------------------------------------------------------------- C4

\* C4: when none of the three trial parses matches, unmarshalPayload returns
\* an error that carries the three causes and the indented input, and does
\* not panic.
C4_NoMatchReturnsError ==
    Done /\ ~EventCondition(data) /\ ~AggregationCondition(data) /\ ~FacetCondition(data)
        => /\ pc = "failed"
           /\ ret.outcome = "error"
           /\ ret.errors.basic # ""
           /\ ret.errors.aggregation # ""
           /\ ret.errors.facet # ""
           /\ ret.data = Indent(data)

\* ------------------------------------------------------------------- C5

\* C5 as stated, for the documents that decode under the Event shape: an
\* entry of "results" with a non-null "events", at whatever index, makes the
\* document an Event payload.
C5_EventsAtAnyIndexMakeEvent ==
    (/\ Done
     /\ data.k # "invalid" /\ BasicOK(data) /\ Results(data).k = "arr"
     /\ \E i \in 1..Len(Results(data).a) : EventsAt(data, i) # JNull)
        => ret.kind = "Event"

\* C5, amended: a document that decodes under the Event shape is returned as
\* Event exactly when the entry at index 0 of "results" has a non-null
\* "events", an empty list included; an entry at a later index does not count.
C5_EventsAtIndex0MakeEvent ==
    Done /\ data.k # "invalid" /\ BasicOK(data)
        => (ret.kind = "Event" <=> FirstEvents(data) # JNull)

C5_Witness ==
    /\ pc = "returned"
    /\ ret.kind = "Event"
    /\ FirstEvents(data) = JArr(<<>>)

\* ------------------------------------------------------------------- C6

\* The object j without its member key, and with the value v for it.
JWithout(j, key) == JObj(SelectSeq(j.a, LAMBDA m : m.s # key))
JWith(j, key, v) == JObj(JWithout(j, key).a \o <<JMem(key, v)>>)
\* The document d without metadata.contents[0].columns, all else the same.
WithoutColumnList(d) ==
    LET metadata == JField(d, "metadata")
        contents == JField(metadata, "contents")
    IN JWith(d, "metadata",
             JWith(metadata, "contents",
                   JArr(<<JWithout(contents.a[1], "columns")>> \o Tail(contents.a))))
\* The document carries a list of column names.
HasColumnList(d) == ColumnList(d).k = "arr" /\ StringsOK(ColumnList(d))

\* C6: a document with a column list is classified as the same document
\* without it is, and a document that meets the Event condition and has no
\* column list is returned as Event.
C6_ColumnListDoesNotDecideTheVariant ==
    Done =>
        /\ HasColumnList(data) =>
            /\ ColumnList(WithoutColumnList(data)) = JNull
            /\ unmarshalPayload(WithoutColumnList(data)).kind = ret.kind
            /\ unmarshalPayload(WithoutColumnList(data)).outcome = ret.outcome
        /\ EventCondition(data) /\ ColumnList(data) = JNull => ret.kind = "Event"

C6_Witness ==
    /\ pc = "returned"
    /\ ret.kind = "Event"
    /\ HasColumnList(data)
    /\ Len(FirstEvents(data).a) = 2
    /\ unmarshalPayload(WithoutColumnList(data)).kind = "Event"

\* ------------------------------------------------------------------- C7

\* The events of the document and the value of one for a key, as Go values.
EventValue(d, i, key) ==
    IF key \in JKeys(FirstEvents(d).a[i])
    THEN decodeInterface(JField(FirstEvents(d).a[i], key))
    ELSE GoNil

\* Rows() result rows lines up with Columns() result cols: one row per event,
\* and cell j of row i is event i's value for cols[j].
Aligned(rows, cols) ==
    /\ Len(rows) = Len(FirstEvents(data).a)
    /\ \A i \in 1..Len(rows) :
        /\ Len(rows[i]) = Len(cols)
        /\ \A j \in 1..Len(cols) : rows[i][j] = EventValue(data, i, cols[j])

\* C7: on an Event payload without a column list, every Rows() result lines
\* up with every Columns() result, in whatever order the calls were made.
C7_RowsAlignedWithColumnsInAnyOrder ==
    ret.kind = "Event" /\ ColumnList(data) = JNull =>
        \A i \in RowsCalls : \A j \in ColumnsCalls :
            Aligned(calls[i].rows, calls[j].cols)

\* ------------------------------------------------------------------- C8

\* C8: any two Columns() calls on the instance return the same sequence, and
\* the keys of the first event of an Event payload without a column list are
\* ranged over at most once (stated for a first event of two keys or more,
\* where the order of the range shows).
C8_ColumnsStableAndRangedOnce ==
    /\ \A i, j \in ColumnsCalls : calls[i].cols = calls[j].cols
    /\ (/\ ret.kind = "Event"
        /\ ColumnList(data) = JNull
        /\ Cardinality(JKeys(JFirst(FirstEvents(data)))) >= 2) => ranges <= 1

\* ------------------------------------------------------------------- C9

\* C9: on an Event payload without a column list and with at least one event,
\* Columns() holds every key of the first event once and nothing else.
C9_ColumnsArePermutationOfFirstEventKeys ==
    ret.kind = "Event" /\ ColumnList(data) = JNull /\ Len(FirstEvents(data).a) >= 1 =>
        \A i \in ColumnsCalls :
            /\ {calls[i].cols[j] : j \in 1..Len(calls[i].cols)} = JKeys(FirstEvents(data).a[1])
            /\ Len(calls[i].cols) = Cardinality(JKeys(FirstEvents(data).a[1]))

C9_Witness ==
    /\ ret.kind = "Event"
    /\ ColumnList(data) = JNull
    /\ Len(FirstEvents(data).a) = 2
    /\ JKeys(FirstEvents(data).a[1]) = {"a", "b"}
    /\ JKeys(FirstEvents(data).a[2]) = {"b", "c"}
    /\ \E i \in ColumnsCalls : calls[i].cols = <<"b", "a">>

\* ------------------------------------------------------------------ C10

\* C10: on an Event payload with a column list, every call ends normally,
\* Columns() is that list in its order, and Rows() has one row per event, in
\* order, whose cell j is the event's value for column j, nil when the event
\* has no such key.
C10_ExplicitColumnsGiveColumnsAndRows ==
    ret.kind = "Event" /\ ColumnList(data) # JNull =>
        /\ \A i \in 1..Len(calls) : calls[i].status = "ok"
        /\ \A i \in ColumnsCalls :
            /\ Len(calls[i].cols) = Len(ColumnList(data).a)
            /\ \A j \in 1..Len(calls[i].cols) : calls[i].cols[j] = ColumnList(data).a[j].s
        /\ \A i \in RowsCalls :
            Aligned(calls[i].rows,
                    [j \in 1..Len(ColumnList(data).a) |-> ColumnList(data).a[j].s])

C10_Witness ==
    /\ ret.kind = "Event"
    /\ ColumnList(data) = JArr(<<JStr("c"), JStr("a")>>)
    /\ \E i \in RowsCalls :
        calls[i].rows = << <<GoNil, [t |-> "float64", s |-> "1"]>>,
                           <<[t |-> "float64", s |-> "2"], GoNil>> >>
    /\ \E i \in ColumnsCalls : calls[i].cols = <<"c", "a">>

\* ------------------------------------------------------------------ C11

\* A cell as it stands on the wire: an object of exactly one key, and the Go
\* value of that key.
SingleEntry(j) == j.k = "obj" /\ Cardinality(JKeys(j)) = 1
WireValue(j) == decodeInterface(JField(j, CHOOSE key \in JKeys(j) : TRUE))
WireRow(cs) == [j \in 1..Len(cs) |-> WireValue(cs[j])]
AllSingleEntry(cs) == \A j \in 1..Len(cs) : SingleEntry(cs[j])
AllCalls(op) == {i \in 1..Len(calls) : calls[i].op = op}

\* C11: Rows() of an Aggregation payload whose "results" are single-entry
\* maps ends normally with exactly one row, also for an empty "results", and
\* cell j of the row is the value of the j-th map, in wire order.
C11_AggregationGivesExactlyOneRow ==
    ret.kind = "Aggregation" /\ AllSingleEntry(Results(data).a) =>
        \A i \in AllCalls("Rows") :
            /\ calls[i].status = "ok"
            /\ Len(calls[i].rows) = 1
            /\ calls[i].rows[1] = WireRow(Results(data).a)

C11_Witness ==
    /\ ret.kind = "Aggregation"
    /\ Results(data) = JArr(<<>>)
    /\ \E i \in RowsCalls : calls[i].rows = << <<>> >>

\* ------------------------------------------------------------------ C12

\* The metadata content entries of the document, where each shape keeps them,
\* and the column name of one entry read off the wire.
AggregationEntries(d) == JField(JField(d, "metadata"), "contents").a
FacetEntries(d) == JField(JField(JField(d, "metadata"), "contents"), "contents").a
WireColumnName(j) ==
    IF JField(j, "function") = JStr("alias")
    THEN decodeString(JField(j, "alias"))
    ELSE decodeString(JField(j, "function"))
WireColumnNames(es) == [j \in 1..Len(es) |-> WireColumnName(es[j])]

\* C12: Columns() of an Aggregation payload is, entry by entry, the function
\* name, or the alias when the function is exactly "alias"; Columns() of a
\* Facet payload is the facet name followed by that list.
C12_ColumnsAreFunctionOrAlias ==
    \A i \in AllCalls("Columns") :
        /\ ret.kind = "Aggregation" =>
            /\ calls[i].status = "ok"
            /\ calls[i].cols = WireColumnNames(AggregationEntries(data))
        /\ ret.kind = "Facet" =>
            /\ calls[i].status = "ok"
            /\ Len(calls[i].cols) = Len(FacetEntries(data)) + 1
            /\ calls[i].cols =
                <<decodeString(JField(JField(data, "metadata"), "facet"))>>
                    \o WireColumnNames(FacetEntries(data))

C12_Witness ==
    /\ ret.kind = "Facet"
    /\ FacetEntries(data) = <<Function("average"), Alias("n")>>
    /\ \E i \in ColumnsCalls : calls[i].cols = <<"f", "average", "n">>

\* ------------------------------------------------------------------ C13

\* The facet groups of the document and the row of one group read off the
\* wire.
Groups(d) == Facets(d).a
GroupCells(g) == JField(g, "results").a
WireGroupRow(g) ==
    <<GoString(decodeString(JField(g, "name")))>> \o WireRow(GroupCells(g))

\* C13: Rows() of a Facet payload whose groups hold single-entry maps ends
\* normally with one row per group, in group order: the group's name, then
\* the values of its results in wire order.  No row comes from totalResult
\* or unknownGroup.
C13_OneRowPerFacetGroup ==
    (/\ ret.kind = "Facet"
     /\ \A g \in 1..Len(Groups(data)) : AllSingleEntry(GroupCells(Groups(data)[g])))
        => \A i \in AllCalls("Rows") :
            /\ calls[i].status = "ok"
            /\ Len(calls[i].rows) = Len(Groups(data))
            /\ \A g \in 1..Len(Groups(data)) :
                calls[i].rows[g] = WireGroupRow(Groups(data)[g])

C13_Witness ==
    /\ ret.kind = "Facet"
    /\ JField(JField(data, "totalResult"), "results") = JArr(<<Obj1("count", "3")>>)
    /\ JField(JField(data, "unknownGroup"), "results") = JArr(<<Obj1("count", "4")>>)
    /\ \E i \in RowsCalls :
        calls[i].rows = << <<GoString("x"), [t |-> "float64", s |-> "1"]>> >>

\* ------------------------------------------------------------------ C16

\* The cells that Rows() hands to parseCell: the "results" of an Aggregation
\* payload, the results of every group of a Facet payload.
ParsedCells(d) ==
    IF ret.kind = "Aggregation"
    THEN {Results(d).a[j] : j \in 1..Len(Results(d).a)}
    ELSE UNION {{GroupCells(Groups(d)[g])[j] : j \in 1..Len(GroupCells(Groups(d)[g]))} :
                    g \in 1..Len(Groups(d))}

\* C16: parseCell gives the value of a map of exactly one entry and ends the
\* process for every other cell (no entry, a null, two entries or more): a
\* Rows() call on an Aggregation or Facet payload with such a cell returns no
\* rows and no error, and nothing runs after it.
C16_MalformedCellIsFatal ==
    ret.kind \in {"Aggregation", "Facet"} =>
        \A i \in AllCalls("Rows") :
            IF \A c \in ParsedCells(data) : SingleEntry(c)
            THEN /\ calls[i].status = "ok"
                 /\ \A r \in 1..Len(calls[i].rows) :
                        \A j \in 1..Len(calls[i].rows[r]) :
                            \/ ret.kind = "Facet" /\ j = 1
                            \/ \E c \in ParsedCells(data) : calls[i].rows[r][j] = WireValue(c)
            ELSE /\ calls[i].status = "fatal"
                 /\ calls[i].rows = <<>>
                 /\ pc = "exited"
                 /\ i = Len(calls)
                 /\ ~ENABLED Next

C16_Witness ==
    /\ ret.kind = "Aggregation"
    /\ Results(data) = JArr(<<Obj1("count", "1"), JNull>>)
    /\ pc = "exited"
    /\ \E i \in AllCalls("Rows") : calls[i].status = "fatal" /\ calls[i].rows = <<>>

\* ================================================== StaticColumnsPayload

\* The most static columns of one decorator, and the most room the decoder
\* leaves in the backing array of a decoded column list past its length
\* (encoding/json grows the slice as it decodes; how far is up to the build).
MaxStatics == 2
MaxSpare == 2

\* The static columns tried: the first MaxStatics of a declaration, so that
\* every list keeps the declaration's order; and those of a second decorator
\* put around the same payload.
StaticColumn(name, value) == [Name |-> name, Value |-> value]
StaticColumnLists ==
    LET declared == <<StaticColumn("env", "prod"), StaticColumn("src", "nr"),
                      StaticColumn("host", "h1"), StaticColumn("dc", "d1")>>
    IN {SubSeq(declared, 1, k) : k \in 0..MaxStatics}
SecondStaticColumns == <<StaticColumn("tag", "t")>>

\* Mutant of StaticColumnsPayload_Columns: the names are appended to the
\* inner payload's own column list, which grows with them.
StaticColumnsPayload_Columns_GrowsInner(columns, cached, room, cs) ==
    LET names == [i \in 1..Len(cs) |-> cs[i].Name]
    IN [out |-> columns \o names, shared |-> cached,
        inner |-> IF cached THEN columns \o names ELSE columns,
        room |-> room]

\* StaticColumnsPayload.Columns, given what p.Payload.Columns() returned:
\* columns, whether that slice is the inner payload's cached one, and the room
\* its backing array has past its length.  append writes the names into that
\* room when they fit and returns a slice of the same array; it copies into a
\* new array when they do not; with no name to append it returns columns
\* itself.  inner is the inner column list, room the room, after the call.
StaticColumnsPayload_Columns(columns, cached, room, cs) ==
    LET names == [i \in 1..Len(cs) |-> cs[i].Name]
        inplace == Len(names) <= Len(room)
    IN [out |-> columns \o names,
        shared |-> cached /\ inplace,
        inner |-> columns,
        room |-> IF cached /\ inplace /\ Len(names) > 0
                 THEN names \o SubSeq(room, Len(names) + 1, Len(room))
                 ELSE room]

\* Mutant of StaticColumnsPayload_Rows: only the first row gets the values.
StaticColumnsPayload_Rows_FirstRowOnly(rows, cs) ==
    [i \in 1..Len(rows) |->
        IF i = 1 THEN rows[i] \o [j \in 1..Len(cs) |-> GoString(cs[j].Value)]
        ELSE rows[i]]

\* StaticColumnsPayload.Rows, given what p.Payload.Rows() returned.  Every
\* Rows() of the three payloads builds its rows anew (make, a literal, a nil
\* slice appended to), so the rows appended to here are shared with no one.
StaticColumnsPayload_Rows(rows, cs) ==
    [i \in 1..Len(rows) |-> rows[i] \o [j \in 1..Len(cs) |-> GoString(cs[j].Value)]]

\* p.Payload.Columns() and p.Payload.Rows(): the method of the payload that
\* unmarshalPayload returned, a *PayloadBasic, a PayloadAggregation or a
\* PayloadFacet.
InnerColumns(order) ==
    CASE ret.kind = "Event" ->
            LET c == PayloadBasic_Columns(basic, order)
            IN [out |-> c.out.elems, basic |-> c.p, cached |-> TRUE,
                status |-> IF c.panicked THEN "panic" ELSE "ok", ranged |-> c.ranged]
      [] ret.kind = "Aggregation" ->
            [out |-> PayloadAggregation_Columns(aggregation), basic |-> basic,
             cached |-> FALSE, status |-> "ok", ranged |-> FALSE]
      [] OTHER ->
            [out |-> PayloadFacet_Columns(facet), basic |-> basic,
             cached |-> FALSE, status |-> "ok", ranged |-> FALSE]
InnerRows(order) ==
    CASE ret.kind = "Event" ->
            LET r == PayloadBasic_Rows(basic, order)
            IN [out |-> r.out, status |-> IF r.panicked THEN "panic" ELSE "ok",
                ranged |-> r.ranged]
      [] ret.kind = "Aggregation" ->
            LET r == PayloadAggregation_Rows(aggregation)
            IN [out |-> r.out, status |-> IF r.fatal THEN "fatal" ELSE "ok",
                ranged |-> FALSE]
      [] OTHER ->
            LET r == PayloadFacet_Rows(facet)
            IN [out |-> r.out, status |-> IF r.fatal THEN "fatal" ELSE "ok",
                ranged |-> FALSE]

\* The documents decorated: the three kinds, an Event payload with and
\* without a column list, and one with a column list and no event.
StaticDocuments ==
    {Document(JArr(<<Entry(JArr(<<Obj1("x", "1")>>))>>), JNull,
              BasicMetadata(JArr(<<JStr("x")>>))),
     Document(JArr(<<Entry(JArr(<<>>))>>), JNull,
              BasicMetadata(JArr(<<JStr("a"), JStr("b")>>))),
     Document(JArr(<<Entry(JArr(<<Obj2("a", "1", "b", "2"), Obj1("a", "3")>>))>>),
              JNull, JNull),
     Document(JArr(<<Obj1("average", "2"), Obj1("count", "1")>>), JNull,
              AggregationMetadata(<<Function("average"), Function("count")>>)),
     Document(JNull,
              JArr(<<Group(JStr("x"), <<Obj1("count", "1")>>),
                     Group(JStr("y"), <<Obj1("count", "2")>>)>>),
              FacetMetadata(<<Function("count")>>)),
     Document(JNull, JArr(<<>>), FacetMetadata(<<Function("count")>>))}

\* A decoded column list of one name or more may have room left in its array;
\* the room holds zero values.  One decorator or two are put around the
\* payload that unmarshalPayload is about to return.
InitStatic ==
    /\ data \in StaticDocuments
    /\ pc = "start"
    /\ ret = NoResult
    /\ basic = ZeroBasic
    /\ aggregation = ZeroAggregation
    /\ facet = ZeroFacet
    /\ calls = <<>>
    /\ ranges = 0
    /\ spare \in IF ColumnList(data).k = "arr" /\ Len(ColumnList(data).a) >= 1
                 THEN {[i \in 1..n |-> ""] : n \in 0..MaxSpare}
                 ELSE {<<>>}
    /\ statics \in {<<cs>> : cs \in StaticColumnLists}
                   \cup {<<cs, SecondStaticColumns>> : cs \in StaticColumnLists}
    /\ threads = <<>> /\ http = <<>> /\ csv = <<>> /\ query = <<>>

\* A call on decorator who: what it ended with, the columns or rows as they
\* were when it returned, and whether the returned column slice lies in the
\* inner payload's array.
StaticCall(op, who, status, cols, rows, shared) ==
    [op |-> op, status |-> status, cols |-> cols, rows |-> rows,
     who |-> who, shared |-> shared]

\* Columns() on one of the decorators.
StaticColumns ==
    /\ CanCall(ret.kind)
    /\ \E d \in 1..Len(statics) : \E order \in RangeOrders(basic) :
        LET c == InnerColumns(order)
            r == StaticColumnsPayload_Columns(c.out, c.cached, spare, statics[d])
        IN /\ basic' = IF c.status = "ok" /\ c.cached
                       THEN [c.basic EXCEPT !.cols.elems = r.inner]
                       ELSE c.basic
           /\ spare' = IF c.status = "ok" THEN r.room ELSE spare
           /\ calls' = Append(calls,
                 IF c.status = "ok"
                 THEN StaticCall("Static.Columns", d, "ok", r.out, <<>>, r.shared)
                 ELSE StaticCall("Static.Columns", d, c.status, <<>>, <<>>, FALSE))
           /\ pc' = IF c.status = "ok" THEN pc ELSE "panicked"
           /\ ranges' = IF c.ranged THEN ranges + 1 ELSE ranges
    /\ UNCHANGED <<data, ret, aggregation, facet, statics, threads, http, csv, query>>

\* Rows() on one of the decorators.
StaticRows ==
    /\ CanCall(ret.kind)
    /\ \E d \in 1..Len(statics) : \E order \in RangeOrders(basic) :
        LET r == InnerRows(order)
        IN /\ calls' = Append(calls,
                 IF r.status = "ok"
                 THEN StaticCall("Static.Rows", d, "ok", <<>>,
                                 StaticColumnsPayload_Rows(r.out, statics[d]), FALSE)
                 ELSE StaticCall("Static.Rows", d, r.status, <<>>, <<>>, FALSE))
           /\ pc' = CASE r.status = "ok" -> pc
                      [] r.status = "fatal" -> "exited"
                      [] OTHER -> "panicked"
           /\ ranges' = IF r.ranged THEN ranges + 1 ELSE ranges
    /\ UNCHANGED <<data, ret, basic, aggregation, facet, spare, statics,
                   threads, http, csv, query>>

NextStatic ==
    \/ UnmarshalPayload
    \/ ColumnsBasic
    \/ RowsBasic
    \/ ColumnsAggregation
    \/ RowsAggregation
    \/ ColumnsFacet
    \/ RowsFacet
    \/ StaticColumns
    \/ StaticRows

SpecStatic == InitStatic /\ [][NextStatic]_vars

\* ------------------------------------------------------------------ C14

\* C14: a Columns() call on a decorator returns what Columns() of the inner
\* payload returns on the same state followed by the names of the decorator's
\* static columns in declaration order, and a Rows() call returns as many
\* rows as Rows() of the inner payload, each followed by the values in the
\* same order; for no static column and for no inner row too.
C14_DecoratorAppendsStaticColumns ==
    [][(Len(calls') = Len(calls) + 1 /\ calls'[Len(calls')].status = "ok") =>
        LET c == calls'[Len(calls')]
            names == [j \in 1..Len(statics[c.who]) |-> statics[c.who][j].Name]
            values == [j \in 1..Len(statics[c.who]) |->
                          GoString(statics[c.who][j].Value)]
        IN /\ c.op = "Static.Columns" =>
                \E order \in RangeOrders(basic) :
                    c.cols = InnerColumns(order).out \o names
           /\ c.op = "Static.Rows" =>
                \E order \in RangeOrders(basic) :
                    /\ Len(c.rows) = Len(InnerRows(order).out)
                    /\ \A r \in 1..Len(c.rows) :
                        c.rows[r] = InnerRows(order).out[r] \o values]_vars

C14_Witness ==
    /\ ret.kind = "Event"
    /\ \E i, j \in 1..Len(calls) :
        /\ calls[i].op = "Static.Columns"
        /\ calls[j].op = "Static.Rows"
        /\ calls[i].who = 1 /\ calls[j].who = 1
        /\ statics[1] = <<StaticColumn("env", "prod")>>
        /\ calls[i].cols = <<"x", "env">>
        /\ calls[j].rows = << <<[t |-> "float64", s |-> "1"], GoString("prod")>> >>

\* ------------------------------------------------------------------ C15

\* C15: whatever calls were made on the decorators, the calls made on the
\* inner payload itself return what they return with no decorator: the
\* column list of the document (or, without one, the one order of the first
\* event's keys that is cached), rows of the events' values for such columns,
\* the columns and rows of an Aggregation or Facet document; and the cached
\* column list is that list, with no static name in it.
C15_DecoratorLeavesInnerPayloadAlone ==
    /\ ret.kind = "Event" =>
        LET orders == IF ColumnList(data) # JNull
                      THEN {[j \in 1..Len(ColumnList(data).a) |-> ColumnList(data).a[j].s]}
                      ELSE KeyOrders(JKeys(JFirst(FirstEvents(data))))
        IN /\ ~basic.cols.isnil => basic.cols.elems \in orders
           /\ \A i \in ColumnsCalls : calls[i].cols = basic.cols.elems
           /\ \A i \in RowsCalls : \E order \in orders : Aligned(calls[i].rows, order)
    /\ ret.kind = "Aggregation" =>
        /\ \A i \in ColumnsCalls : calls[i].cols = WireColumnNames(AggregationEntries(data))
        /\ \A i \in RowsCalls : calls[i].rows = <<WireRow(Results(data).a)>>
    /\ ret.kind = "Facet" =>
        /\ \A i \in ColumnsCalls :
            calls[i].cols = <<decodeString(JField(JField(data, "metadata"), "facet"))>>
                                \o WireColumnNames(FacetEntries(data))
        /\ \A i \in RowsCalls :
            calls[i].rows = [g \in 1..Len(Groups(data)) |-> WireGroupRow(Groups(data)[g])]

C15_Witness ==
    /\ ret.kind = "Event"
    /\ Len(spare) = 2 /\ spare[1] = "env"
    /\ \E i, j \in 1..Len(calls) :
        /\ i < j
        /\ calls[i].op = "Static.Columns" /\ calls[i].shared
        /\ calls[i].cols = <<"x", "env">>
        /\ calls[j].op = "Columns" /\ calls[j].cols = <<"x">>

\* =========================================== concurrent calls of Columns()

\* The goroutines that call Columns() on the one *PayloadBasic.
MaxThreads == 2
Threads == 1..MaxThreads

\* The Event documents shared: first events of one, two and three keys with
\* no column list, no event at all, and one with a column list.
ConcurrentDocuments ==
    {Document(JArr(<<Entry(JArr(es))>>), JNull, JNull) :
        es \in {<<>>, <<Obj1("a", "1")>>, <<Obj2("a", "1", "b", "2")>>,
                <<JObj(<<JMem("a", JNum("1")), JMem("b", JNum("2")),
                         JMem("c", JNum("3"))>>)>>}}
    \cup {Document(JArr(<<Entry(JArr(<<Obj2("a", "1", "b", "2")>>))>>), JNull,
                   BasicMetadata(JArr(<<JStr("b"), JStr("a")>>)))}

\* A goroutine: where it is in Columns() (a line of payload.go; "idle" before
\* the call, "done" after it), the keys its range has yet to give, the slice
\* it read for append, and what it returned.
IdleThread == [pc |-> "idle", todo |-> <<>>, read |-> NilSlice, out |-> NilSlice]

InitConcurrent ==
    /\ data \in ConcurrentDocuments
    /\ pc = "start"
    /\ ret = NoResult
    /\ basic = ZeroBasic
    /\ aggregation = ZeroAggregation
    /\ facet = ZeroFacet
    /\ calls = <<>>
    /\ ranges = 0
    /\ threads = [t \in Threads |-> IdleThread]
    /\ spare = <<>> /\ statics = <<>> /\ http = <<>> /\ csv = <<>> /\ query = <<>>

\* What one step of a goroutine leaves alone.  No lock is taken anywhere in
\* Columns(): the steps of the goroutines interleave freely.
ThreadStep(t, at) ==
    /\ pc = "returned"
    /\ ret.kind = "Event"
    /\ threads[t].pc = at
    /\ UNCHANGED <<data, ret, aggregation, facet, calls, spare, statics, http, csv, query>>

\* go p.Columns()
CallColumns(t) ==
    /\ ThreadStep(t, "idle")
    /\ threads' = [threads EXCEPT ![t].pc = "72"]
    /\ UNCHANGED <<pc, basic, ranges>>

\* if p.cols != nil { return p.cols }
ReturnCached(t) ==
    /\ ThreadStep(t, "72")
    /\ threads' = IF ~basic.cols.isnil
                  THEN [threads EXCEPT ![t].pc = "done", ![t].out = basic.cols]
                  ELSE [threads EXCEPT ![t].pc = "77"]
    /\ UNCHANGED <<pc, basic, ranges>>

\* if p.cols = p.Metadata.Contents[0].Columns; p.cols != nil { return p.cols }
ReturnMetadataColumns(t) ==
    /\ ThreadStep(t, "77")
    /\ basic' = [basic EXCEPT !.cols = basic.Columns]
    /\ threads' = IF ~basic.Columns.isnil
                  THEN [threads EXCEPT ![t].pc = "done", ![t].out = basic.Columns]
                  ELSE [threads EXCEPT ![t].pc = "89"]
    /\ UNCHANGED <<pc, ranges>>

\* p.cols = make([]string, 0, len(p.Results[0].Events[0])), and the start of
\* the range over the first event; Events[0] of an empty list panics.
MakeColumns(t) ==
    /\ ThreadStep(t, "89")
    /\ IF Len(basic.Events.elems) = 0
       THEN /\ pc' = "panicked"
            /\ UNCHANGED <<basic, threads, ranges>>
       ELSE /\ \E order \in RangeOrders(basic) :
                threads' = [threads EXCEPT ![t].pc = "90", ![t].todo = order]
            /\ basic' = [basic EXCEPT !.cols = Slice(<<>>)]
            /\ ranges' = ranges + 1
            /\ UNCHANGED pc

\* for column := range ... : the next key, and the read of p.cols that
\* append(p.cols, column) starts with.
RangeColumns(t) ==
    /\ ThreadStep(t, "90")
    /\ threads' = IF threads[t].todo = <<>>
                  THEN [threads EXCEPT ![t].pc = "93"]
                  ELSE [threads EXCEPT ![t].pc = "91", ![t].read = basic.cols]
    /\ UNCHANGED <<pc, basic, ranges>>

\* p.cols = append(p.cols, column): the write of the appended slice.
AppendColumn(t) ==
    /\ ThreadStep(t, "91")
    /\ basic' = [basic EXCEPT
                    !.cols = Slice(threads[t].read.elems \o <<Head(threads[t].todo)>>)]
    /\ threads' = [threads EXCEPT ![t].pc = "90", ![t].todo = Tail(threads[t].todo)]
    /\ UNCHANGED <<pc, ranges>>

\* return p.cols
ReturnColumns(t) ==
    /\ ThreadStep(t, "93")
    /\ threads' = [threads EXCEPT ![t].pc = "done", ![t].out = basic.cols]
    /\ UNCHANGED <<pc, basic, ranges>>

NextConcurrent ==
    \/ UnmarshalPayload
    \/ \E t \in Threads : CallColumns(t)
    \/ \E t \in Threads : ReturnCached(t)
    \/ \E t \in Threads : ReturnMetadataColumns(t)
    \/ \E t \in Threads : MakeColumns(t)
    \/ \E t \in Threads : RangeColumns(t)
    \/ \E t \in Threads : AppendColumn(t)
    \/ \E t \in Threads : ReturnColumns(t)

SpecConcurrent == InitConcurrent /\ [][NextConcurrent]_vars

\* ------------------------------------------------------------------ C17

\* C17: when the goroutines call Columns() on an Event payload with no column
\* list and at least one event, every call that returns gives every key of
\* the first event once, all calls give the same sequence, and a goroutine
\* that finds the cache set finds it complete.
C17_ConcurrentFirstAccessIsSafe ==
    (/\ ret.kind = "Event"
     /\ ColumnList(data) = JNull
     /\ Len(FirstEvents(data).a) >= 1)
        => /\ \A t \in Threads : threads[t].pc = "done" =>
                /\ Len(threads[t].out.elems) = Cardinality(JKeys(FirstEvents(data).a[1]))
                /\ {threads[t].out.elems[j] : j \in 1..Len(threads[t].out.elems)}
                        = JKeys(FirstEvents(data).a[1])
           /\ \A t, u \in Threads :
                threads[t].pc = "done" /\ threads[u].pc = "done"
                    => threads[t].out = threads[u].out

\* ================================================================ execRaw

\* http.StatusOK
StatusOK == 200

\* What the transport has in store for one request: whether building the
\* request fails, whether sending it fails, the status and the body of the
\* response, and whether reading the body fails part way.  pc is the place of
\* execRaw, err the error it returned ("" for none).
InitClient ==
    /\ http \in [pc : {"request"},
                 requestFails : BOOLEAN, doFails : BOOLEAN, readFails : BOOLEAN,
                 status : {StatusOK, 204, 400, 404, 500},
                 body : {Document(JArr(<<Entry(JArr(<<Obj1("a", "1")>>))>>), JNull, JNull),
                         Document(JArr(<<Obj1("count", "1")>>), JNull,
                                  AggregationMetadata(<<Function("count")>>)),
                         JObj(<<JMem("error", JStr("NRQL Syntax Error"))>>),
                         JArr(<<>>), JInvalid},
                 err : {""}]
    /\ data = JInvalid
    /\ pc = "start"
    /\ ret = NoResult
    /\ basic = ZeroBasic
    /\ aggregation = ZeroAggregation
    /\ facet = ZeroFacet
    /\ calls = <<>>
    /\ ranges = 0
    /\ spare = <<>> /\ statics = <<>> /\ threads = <<>> /\ csv = <<>> /\ query = <<>>

\* req, err := http.NewRequest(...); if err != nil { return nil, err }
NewRequest ==
    /\ http.pc = "request"
    /\ http' = IF http.requestFails
               THEN [http EXCEPT !.pc = "done", !.err = "request"]
               ELSE [http EXCEPT !.pc = "do"]
    /\ UNCHANGED <<data, pc, ret, basic, aggregation, facet, calls, ranges,
                   spare, statics, threads, csv, query>>

\* rsp, err := http.DefaultClient.Do(req); if err != nil { return nil, err }
Do ==
    /\ http.pc = "do"
    /\ http' = IF http.doFails
               THEN [http EXCEPT !.pc = "done", !.err = "transport"]
               ELSE [http EXCEPT !.pc = "read"]
    /\ UNCHANGED <<data, pc, ret, basic, aggregation, facet, calls, ranges,
                   spare, statics, threads, csv, query>>

\* data, err := ioutil.ReadAll(rsp.Body); if err != nil { return nil, err }
\* A read that fails leaves in data the part of the body read before.
ReadAll ==
    /\ http.pc = "read"
    /\ data' = IF http.readFails THEN JTruncated ELSE http.body
    /\ http' = IF http.readFails
               THEN [http EXCEPT !.pc = "done", !.err = "read"]
               ELSE [http EXCEPT !.pc = "status"]
    /\ UNCHANGED <<pc, ret, basic, aggregation, facet, calls, ranges,
                   spare, statics, threads, csv, query>>

\* Mutant of CheckStatus: the status code is not looked at.
CheckStatus_NoCheck ==
    /\ http.pc = "status"
    /\ http' = [http EXCEPT !.pc = "unmarshal"]
    /\ UNCHANGED <<data, pc, ret, basic, aggregation, facet, calls, ranges,
                   spare, statics, threads, csv, query>>

\* if rsp.StatusCode != http.StatusOK { return nil, fmt.Errorf(...) }
CheckStatus ==
    /\ http.pc = "status"
    /\ http' = IF http.status # StatusOK
               THEN [http EXCEPT !.pc = "done", !.err = "status"]
               ELSE [http EXCEPT !.pc = "unmarshal"]
    /\ UNCHANGED <<data, pc, ret, basic, aggregation, facet, calls, ranges,
                   spare, statics, threads, csv, query>>

\* return unmarshalPayload(data): the call is logged with the bytes given.
ReturnUnmarshalPayload ==
    /\ http.pc = "unmarshal"
    /\ ret' = unmarshalPayload(data)
    /\ pc' = CASE ret'.outcome = "payload" -> "returned"
               [] ret'.outcome = "error" -> "failed"
               [] OTHER -> "panicked"
    /\ calls' = Append(calls, [op |-> "unmarshalPayload", data |-> data])
    /\ http' = [http EXCEPT !.pc = "done",
                            !.err = IF ret'.outcome = "error" THEN "format" ELSE ""]
    /\ UNCHANGED <<data, basic, aggregation, facet, ranges,
                   spare, statics, threads, csv, query>>

NextClient ==
    \/ NewRequest
    \/ Do
    \/ ReadAll
    \/ CheckStatus
    \/ ReturnUnmarshalPayload

SpecClient == InitClient /\ [][NextClient]_vars

\* ------------------------------------------------------------------ C18

\* C18: unmarshalPayload is invoked only once the request was built and sent
\* without error, the body was read to its end and the status is 200, and
\* then on the whole body; when the request, the transport or the read fails
\* or the status is not 200, execRaw ends with an error and without a payload,
\* and unmarshalPayload was never invoked.
C18_NormalizerReachedOnlyOnSuccess ==
    LET success == /\ ~http.requestFails /\ ~http.doFails /\ ~http.readFails
                   /\ http.status = 200
    IN /\ (calls # <<>> \/ ret # NoResult \/ http.pc = "unmarshal") =>
            /\ success
            /\ data = http.body
            /\ \A i \in 1..Len(calls) : calls[i].data = http.body
       /\ (http.pc = "done" /\ ~success) =>
            /\ http.err \in {"request", "transport", "read", "status"}
            /\ calls = <<>>
            /\ ret = NoResult

C18_Witness ==
    /\ http.pc = "done"
    /\ http.status = 400
    /\ ~http.requestFails /\ ~http.doFails /\ ~http.readFails
    /\ http.body = JObj(<<JMem("error", JStr("NRQL Syntax Error"))>>)
    /\ data = http.body
    /\ http.err = "status"
    /\ calls = <<>>

\* ============================================================== FormatCSV

\* The most rows of a payload given to FormatCSV.
MaxRows == 2

\* A string is the sequence of its characters.  The decimal digits of a
\* natural number, as strconv writes them.
RECURSIVE Digits(_)
Digits(n) ==
    LET digit == <<"0", "1", "2", "3", "4", "5", "6", "7", "8", "9">>[(n % 10) + 1]
    IN IF n < 10 THEN <<digit>> ELSE Digits(n \div 10) \o <<digit>>

\* strconv.FormatFloat(x, 'f', -1, 64) of the float64 nearest to m * 10^e:
\* the shortest decimal that reads back as x, with no exponent.
RECURSIVE FormatFloat(_, _)
FormatFloat(m, e) ==
    IF m < 0 THEN <<"-">> \o FormatFloat(-m, e)
    ELSE IF m = 0 THEN <<"0">>
    ELSE IF e < 0 /\ m % 10 = 0 THEN FormatFloat(m \div 10, e + 1)
    ELSE IF e >= 0 THEN Digits(m) \o [i \in 1..e |-> "0"]
    ELSE LET ds == Digits(m)
             k == -e
         IN IF Len(ds) > k
            THEN SubSeq(ds, 1, Len(ds) - k) \o <<".">> \o SubSeq(ds, Len(ds) - k + 1, Len(ds))
            ELSE <<"0", ".">> \o [i \in 1..(k - Len(ds)) |-> "0"] \o ds

\* Mutant of stringify: nil falls to the default branch, fmt.Sprint(nil).
stringify_NilAsSprint(v) ==
    CASE v.t = "float64" -> FormatFloat(v.m, v.e)
      [] v.t = "string" -> v.s
      [] v.t = "nil" -> <<"<", "n", "i", "l", ">">>
      [] OTHER -> IF v.m = 1 THEN <<"t", "r", "u", "e">> ELSE <<"f", "a", "l", "s", "e">>

\* stringify: a cell is [t, s, m, e], t its dynamic type, s the characters of
\* a string, m and e the decimal mantissa and exponent of a float64 (m is 1
\* or 0 for a bool, the one other type tried, written by fmt.Sprint).
stringify(v) ==
    CASE v.t = "nil" -> <<>>
      [] v.t = "float64" -> FormatFloat(v.m, v.e)
      [] v.t = "string" -> v.s
      [] OTHER -> IF v.m = 1 THEN <<"t", "r", "u", "e">> ELSE <<"f", "a", "l", "s", "e">>

\* wr.Write(record) of encoding/csv: the fields with a comma between them; a
\* field that holds a comma, a quote or a line break, or starts with a space,
\* is put in quotes with its quotes doubled; an empty field is written as
\* nothing.  The line is given without its line break.
RECURSIVE WriteRecord(_)
WriteRecord(record) ==
    IF record = <<>> THEN <<>>
    ELSE LET field == record[Len(record)]
             quoted == /\ field # <<>>
                       /\ \/ \E i \in 1..Len(field) : field[i] \in {",", "\"", "\n", "\r"}
                          \/ field[1] = " "
                          \/ field = <<"\\", ".">>
             RECURSIVE Doubled(_)
             Doubled(f) ==
                 IF f = <<>> THEN <<>>
                 ELSE (IF Head(f) = "\"" THEN <<"\"", "\"">> ELSE <<Head(f)>>)
                          \o Doubled(Tail(f))
             text == IF quoted THEN <<"\"">> \o Doubled(field) \o <<"\"">> ELSE field
         IN IF Len(record) = 1 THEN text
            ELSE WriteRecord(SubSeq(record, 1, Len(record) - 1)) \o <<",">> \o text

\* The payloads written: one to three headers, and rows of two cells, each a
\* nil, a string, a string with a comma in it, the float64 0.1 or a bool.
InitCSV ==
    /\ LET cells == {[t |-> "nil", s |-> <<>>, m |-> 0, e |-> 0],
                     [t |-> "string", s |-> <<"x">>, m |-> 0, e |-> 0],
                     [t |-> "string", s |-> <<"p", ",", "q">>, m |-> 0, e |-> 0],
                     [t |-> "float64", s |-> <<>>, m |-> 10, e |-> -2],
                     [t |-> "bool", s |-> <<>>, m |-> 1, e |-> 0]}
       IN csv \in [pc : {"start"},
                   headers : {<< <<"a">> >>, << <<"a">>, <<"b">> >>,
                              << <<"a">>, <<"b">>, <<"c">> >>},
                   rows : SeqUpTo({<<c1, c2>> : c1 \in cells, c2 \in cells}, MaxRows),
                   buffer : {<<>>},
                   out : {<<>>}]
    /\ data = JNull
    /\ pc = "start"
    /\ ret = NoResult
    /\ basic = ZeroBasic
    /\ aggregation = ZeroAggregation
    /\ facet = ZeroFacet
    /\ calls = <<>>
    /\ ranges = 0
    /\ spare = <<>> /\ statics = <<>> /\ threads = <<>> /\ http = <<>> /\ query = <<>>

\* headers := payload.Columns(); rows := payload.Rows(); wr.Write(headers);
\* buffer := make([]string, len(headers))
WriteHeaders ==
    /\ csv.pc = "start"
    /\ csv' = [csv EXCEPT !.pc = "rows",
                          !.out = <<WriteRecord(csv.headers)>>,
                          !.buffer = [i \in 1..Len(csv.headers) |-> <<>>]]
    /\ UNCHANGED <<data, pc, ret, basic, aggregation, facet, calls, ranges,
                   spare, statics, threads, http, query>>

\* One turn of the loop over the rows: buffer[i] = stringify(row[i]) for every
\* header i, then wr.Write(buffer).  row[i] past the end of a row panics.
WriteRow ==
    /\ csv.pc = "rows"
    /\ Len(csv.out) <= Len(csv.rows)
    /\ LET row == csv.rows[Len(csv.out)]
           buffer == [i \in 1..Len(csv.headers) |->
                        IF i <= Len(row) THEN stringify(row[i]) ELSE csv.buffer[i]]
       IN csv' = IF Len(row) < Len(csv.headers)
                 THEN [csv EXCEPT !.pc = "panicked", !.buffer = buffer]
                 ELSE [csv EXCEPT !.buffer = buffer,
                                  !.out = Append(csv.out, WriteRecord(buffer))]
    /\ UNCHANGED <<data, pc, ret, basic, aggregation, facet, calls, ranges,
                   spare, statics, threads, http, query>>

\* wr.Flush(); return wr.Error()
Flush ==
    /\ csv.pc = "rows"
    /\ Len(csv.out) > Len(csv.rows)
    /\ csv' = [csv EXCEPT !.pc = "done"]
    /\ UNCHANGED <<data, pc, ret, basic, aggregation, facet, calls, ranges,
                   spare, statics, threads, http, query>>

NextCSV ==
    \/ WriteHeaders
    \/ WriteRow
    \/ Flush

SpecCSV == InitCSV /\ [][NextCSV]_vars

\* ------------------------------------------------------------------ C19

\* The fields of a written line as a reader of the file splits it: at the
\* commas outside quotes, the quotes removed and a doubled quote read as one.
RECURSIVE ReadFields(_, _, _, _)
ReadFields(line, i, quoted, field) ==
    IF i > Len(line) THEN <<field>>
    ELSE IF quoted
    THEN IF line[i] # "\"" THEN ReadFields(line, i + 1, TRUE, Append(field, line[i]))
         ELSE IF i < Len(line) /\ line[i + 1] = "\""
              THEN ReadFields(line, i + 2, TRUE, Append(field, "\""))
              ELSE ReadFields(line, i + 1, FALSE, field)
    ELSE IF line[i] = "," THEN <<field>> \o ReadFields(line, i + 1, FALSE, <<>>)
    ELSE IF line[i] = "\"" THEN ReadFields(line, i + 1, TRUE, field)
    ELSE ReadFields(line, i + 1, FALSE, Append(field, line[i]))

\* C19: the line written for a row has one field per header; the field of a
\* nil cell is empty, the field of a string cell is the string itself, each
\* at the position of its column.
C19_NullCellIsAnEmptyField ==
    csv # <<>> =>
        \A r \in 2..Len(csv.out) :
            LET fields == ReadFields(csv.out[r], 1, FALSE, <<>>)
                row == csv.rows[r - 1]
            IN /\ Len(fields) = Len(csv.headers)
               /\ \A j \in 1..Len(csv.headers) :
                    /\ row[j].t = "nil" => fields[j] = <<>>
                    /\ row[j].t = "string" => fields[j] = row[j].s

C19_Witness ==
    /\ csv # <<>>
    /\ csv.pc = "done"
    /\ csv.headers = << <<"a">>, <<"b">> >>
    /\ Len(csv.rows) = 1
    /\ csv.rows[1][1].t = "nil"
    /\ csv.rows[1][2].s = <<"p", ",", "q">>
    /\ csv.out = << <<"a", ",", "b">>, <<",", "\"", "p", ",", "q", "\"">> >>

\* =========================================================== query.String

\* Mutant of query_String: a limit of 0 counts as no limit.
query_String_NoLimitZero(q) ==
    LET RECURSIVE Join(_)
        Join(cs) == IF cs = <<>> THEN <<>>
                    ELSE IF Len(cs) = 1 THEN cs[1]
                    ELSE cs[1] \o <<", ">> \o Join(Tail(cs))
        columns == IF Join(q.columns) = <<>> THEN <<"*">> ELSE Join(q.columns)
        whereClause == IF q.where # <<>> THEN <<" WHERE ">> \o q.where ELSE <<>>
        facetClause == IF q.facet # <<>> THEN <<" FACET ">> \o q.facet ELSE <<>>
        limitClause == IF q.limit > 0 THEN <<" LIMIT ">> \o Digits(q.limit) ELSE <<>>
        sinceClause == IF q.since # <<>> THEN <<" SINCE ">> \o q.since ELSE <<>>
        untilClause == IF q.until # <<>> THEN <<" UNTIL ">> \o q.until ELSE <<>>
    IN <<"SELECT ">> \o columns \o <<" FROM ">> \o q.table \o whereClause \o sinceClause
           \o untilClause \o facetClause \o limitClause

\* query.String().  A string is the sequence of its pieces (a keyword with
\* its blanks, a separator, a digit, a word of a field); "" is <<>>.  Join is
\* strings.Join(q.columns, ", "); strconv.Itoa is reached for limits >= 0
\* only, where it gives the decimal digits.
query_String(q) ==
    LET RECURSIVE Join(_)
        Join(cs) == IF cs = <<>> THEN <<>>
                    ELSE IF Len(cs) = 1 THEN cs[1]
                    ELSE cs[1] \o <<", ">> \o Join(Tail(cs))
        columns == IF Join(q.columns) = <<>> THEN <<"*">> ELSE Join(q.columns)
        whereClause == IF q.where # <<>> THEN <<" WHERE ">> \o q.where ELSE <<>>
        facetClause == IF q.facet # <<>> THEN <<" FACET ">> \o q.facet ELSE <<>>
        limitClause == IF q.limit >= 0 THEN <<" LIMIT ">> \o Digits(q.limit) ELSE <<>>
        sinceClause == IF q.since # <<>> THEN <<" SINCE ">> \o q.since ELSE <<>>
        untilClause == IF q.until # <<>> THEN <<" UNTIL ">> \o q.until ELSE <<>>
    IN <<"SELECT ">> \o columns \o <<" FROM ">> \o q.table \o whereClause \o sinceClause
           \o untilClause \o facetClause \o limitClause

\* The query values tried: no column (nil), one, two, and one empty column
\* name; every clause empty or set; a negative limit, 0 and limits of one and
\* two digits.
InitQuery ==
    /\ query \in [pc : {"start"},
                  q : [columns : {<<>>, << <<"a">> >>, << <<"a">>, <<"b">> >>, << <<>> >>},
                       table : {<<"Transaction">>},
                       where : {<<>>, <<"x", " = ", "1">>},
                       since : {<<>>, <<"2", " days ago">>},
                       until : {<<>>, <<"1", " day ago">>},
                       facet : {<<>>, <<"host">>},
                       limit : {-1, 0, 5, 10}],
                  out : {<<>>}]
    /\ data = JNull
    /\ pc = "start"
    /\ ret = NoResult
    /\ basic = ZeroBasic
    /\ aggregation = ZeroAggregation
    /\ facet = ZeroFacet
    /\ calls = <<>>
    /\ ranges = 0
    /\ spare = <<>> /\ statics = <<>> /\ threads = <<>> /\ http = <<>> /\ csv = <<>>

\* q.String()
String ==
    /\ query.pc = "start"
    /\ query' = [query EXCEPT !.pc = "done", !.out = query_String(query.q)]
    /\ UNCHANGED <<data, pc, ret, basic, aggregation, facet, calls, ranges,
                   spare, statics, threads, http, csv>>

NextQuery == String

SpecQuery == InitQuery /\ [][NextQuery]_vars

\* ------------------------------------------------------------------ C20

\* C20: the string starts with SELECT, the columns joined by ", " (a * when
\* none is given), FROM and the table; each of WHERE, SINCE, UNTIL, FACET is
\* there exactly when its field is not empty and is followed by the field;
\* LIMIT is there exactly when the limit is not negative (0 included) and is
\* followed by the limit's digits; the clauses come in that order and the
\* string holds nothing else.
C20_ClausesInOrderWhenSet ==
    (query # <<>> /\ query.pc = "done") =>
        LET q == query.q
            out == query.out
            Has(k) == \E i \in 1..Len(out) : out[i] = k
            At(k) == CHOOSE i \in 1..Len(out) : out[i] = k
            Follows(k, f) == SubSeq(out, At(k) + 1, At(k) + Len(f)) = f
            Clause(k, f) == /\ Has(k) <=> f # <<>>
                            /\ Has(k) => Follows(k, f)
            Before(k1, k2) == Has(k1) /\ Has(k2) => At(k1) < At(k2)
            digits == CASE q.limit = 0 -> <<"0">> [] q.limit = 5 -> <<"5">>
                        [] q.limit = 10 -> <<"1", "0">> [] OTHER -> <<>>
            keywords == <<" FROM ", " WHERE ", " SINCE ", " UNTIL ", " FACET ", " LIMIT ">>
            given == {k \in 1..Len(keywords) : Has(keywords[k])}
            size(f) == IF f = <<>> THEN 0 ELSE Len(f) + 1
        IN /\ out[1] = "SELECT "
           /\ q.columns = <<>> => Follows("SELECT ", <<"*", " FROM ">>)
           /\ q.columns = << <<"a">>, <<"b">> >>
                => Follows("SELECT ", <<"a", ", ", "b", " FROM ">>)
           /\ Has(" FROM ") /\ Follows(" FROM ", q.table)
           /\ Clause(" WHERE ", q.where)
           /\ Clause(" SINCE ", q.since)
           /\ Clause(" UNTIL ", q.until)
           /\ Clause(" FACET ", q.facet)
           /\ Has(" LIMIT ") <=> q.limit >= 0
           /\ Has(" LIMIT ") => /\ Follows(" LIMIT ", digits)
                                /\ At(" LIMIT ") + Len(digits) = Len(out)
           /\ \A k1, k2 \in given : k1 < k2 => At(keywords[k1]) < At(keywords[k2])
           /\ Len(out) = At(" FROM ") + Len(q.table) + size(q.where) + size(q.since)
                            + size(q.until) + size(q.facet) + size(digits)

C20_Witness ==
    /\ query # <<>>
    /\ query.q.limit = 0
    /\ query.out = <<"SELECT ", "a", ", ", "b", " FROM ", "Transaction",
                     " WHERE ", "x", " = ", "1", " SINCE ", "2", " days ago",
                     " UNTIL ", "1", " day ago", " FACET ", "host", " LIMIT ", "0">>

\* ------------------------------------------------------------------ C21

\* C21: a document whose "events" list at index 0 is empty and which has no
\* column list is returned as an Event payload, and on that payload every
\* Columns() call ends normally with no column and every Rows() call ends
\* normally with no row.
C21_EmptyEventsGiveNoColumnsAndNoRows ==
    (/\ Done
     /\ data.k # "invalid" /\ BasicOK(data)
     /\ FirstEvents(data) = JArr(<<>>)
     /\ ColumnList(data) = JNull)
        => /\ ret.kind = "Event"
           /\ pc # "panicked"
           /\ \A i \in 1..Len(calls) :
                /\ calls[i].status = "ok"
                /\ calls[i].cols = <<>>
                /\ calls[i].rows = <<>>

\* ------------------------------------------------------------------ C22

\* C22: a column sequence that a decorator's Columns() returned reads, at any
\* later time, as it read when it was returned.  A returned slice that lies
\* in the inner payload's array is read through that array: the cached list
\* followed by the room past it.
C22_ReturnedColumnsNeverChange ==
    \A i \in 1..Len(calls) :
        (calls[i].op = "Static.Columns" /\ calls[i].status = "ok") =>
            LET array == basic.cols.elems \o spare
                now == IF calls[i].shared
                       THEN SubSeq(array, 1, Len(calls[i].cols))
                       ELSE calls[i].cols
            IN now = calls[i].cols

====
